---- MODULE Spec2Model ----
(***************************************************************************)
(* Model of the pulse schedule of qiskit-terra:                            *)
(*   qiskit/pulse/schedule/pulse_schedule.py  (TimedPulse, PulseSchedule)  *)
(* A PulseSchedule keeps a list of children; add / add_block append to it  *)
(* after a naive interval check over the flat pulse sequence.              *)
(* and of its command definition table:                                    *)
(*   qiskit/pulse/cmd_def.py  (CmdDef)                                     *)
(* Spec is the schedule under its calls, SpecCmdDef the table under its.   *)
(***************************************************************************)
EXTENDS Integers, Sequences, FiniteSets, TLC

(* ------------------------------ bounds --------------------------------- *)
MaxTime == 1          \* start times are drawn from 0..MaxTime
MaxChildren == 2      \* a schedule holds at most this many children
MaxList == 2          \* add() is called with lists of at most this length
MaxInstructions == 2  \* a schedule that is assembled holds at most this many instructions
MaxShift == 2         \* schedules are shifted by -MaxShift..MaxShift

VARIABLES
    children,   \* PulseSchedule._children of the schedule under test
    inserted,   \* history: the instructions whose insertion returned normally
    op,         \* the last public call made (on the schedule or the table)
    err,        \* the exception the last call raised, "none" if it returned
    ret,        \* the value the last call returned
    pre,        \* history: _children when the last single insert was entered
    cmd_dict,   \* CmdDef._cmd_dict of the table under test
    defined,    \* history: the (name, qubits, schedule) given to CmdDef.add and
                \* not named since by a CmdDef.pop that returned
    threads,    \* the threads inside CmdDef.pop: where each is and how it ended
    detached    \* the groups that pop took out of _cmd_dict, which a thread that
                \* read them before still refers to

vars == <<children, inserted, op, err, ret, pre, cmd_dict, defined, threads, detached>>

\* The variables of the schedule and those of the table.
sched_vars == <<children, inserted, pre>>

table_vars == <<cmd_dict, defined>>

pop_vars == <<threads, detached>>

(* --------------------------- values ------------------------------------ *)
\* Commands: the kind is the Python class, the duration is PulseCommand.duration.
\* Acquire and FrameChange are instantaneous, sample pulses are not.
pulse0 == [kind |-> "SamplePulse", name |-> "pulse0", duration |-> 2]

pulse1 == [kind |-> "SamplePulse", name |-> "pulse1", duration |-> 1]

fc_pi_2 == [kind |-> "FrameChange", name |-> "fc", duration |-> 0]

acquire == [kind |-> "Acquire", name |-> "acq", duration |-> 0]

Commands == {pulse0, pulse1, fc_pi_2, acquire}

\* Channels: equal iff class and index are equal.
Channels ==
    {[kind |-> "DriveChannel", index |-> 0],
     [kind |-> "ControlChannel", index |-> 0],
     [kind |-> "AcquireChannel", index |-> 0]}

Times == 0..MaxTime

\* The channel banks a schedule can be built on.
Banks == {"bank0", "bank1"}

\* The bank of the schedule under test (constructor argument).
channel_bank == "bank0"

\* to_channel.__class__.supported: the command classes a channel class accepts.
supported(kind) ==
    CASE kind = "DriveChannel"   -> {"FrameChange", "FunctionalPulse", "PersistentValue", "SamplePulse"}
      [] kind = "ControlChannel" -> {"FrameChange", "FunctionalPulse", "PersistentValue", "SamplePulse"}
      [] kind = "MeasureChannel" -> {"FrameChange", "FunctionalPulse", "PersistentValue", "SamplePulse"}
      [] kind = "AcquireChannel" -> {"Acquire"}
      [] kind = "SnapshotChannel" -> {"Snapshot"}

\* Outcomes of a call: it raises or it returns.
NoError == "none"

ConflictError == "ScheduleError: Cannot add to occupied time slot."

MismatchError == "ScheduleError: command is not supported on channel"

BankError == "ScheduleError: Additional block must have the same channels as self"

NotImplemented == "NotImplementedError"

ValueError == "ValueError"

NoneValue == "None"

Raise(e) == [raised |-> e]

Return(v) == [raised |-> NoError, value |-> v]

(* --------------------------- TimedPulse -------------------------------- *)
\* TimedPulse.__init__: binds a command to a channel and a start time, or
\* raises when the channel class does not support the command class.
TimedPulse(pulse_command, to_channel, start_time) ==
    IF pulse_command.kind \in supported(to_channel.kind)
    THEN Return([type |-> "TimedPulse", command |-> pulse_command,
                 channel |-> to_channel, t0 |-> start_time])
    ELSE Raise(MismatchError)

TimedPulse_start_time(tp) == tp.t0

TimedPulse_end_time(tp) == tp.t0 + tp.command.duration

TimedPulse_duration(tp) == tp.command.duration

\* Every instruction the inputs can bind.
TimedPulses ==
    {TimedPulse(c, ch, t).value :
        <<c, ch, t>> \in {x \in Commands \X Channels \X Times :
                             TimedPulse(x[1], x[2], x[3]).raised = NoError}}

\* A second schedule handed to add_block: its bank and its own children.
BlockSchedules ==
    {[type |-> "PulseSchedule", channel_bank |-> b, children |-> c] :
        b \in Banks,
        c \in {<<>>} \cup {<<tp>> : tp \in {x \in TimedPulses : x.command = pulse1}}}

(* --------------------------- PulseSchedule ----------------------------- *)
\* Variant of flat_pulse_sequence that walks the children backwards.
flat_pulse_sequence_reversed(chs) ==
    IF \E i \in 1..Len(chs) : chs[i].type # "TimedPulse"
    THEN Raise(NotImplemented)
    ELSE Return([i \in 1..Len(chs) |-> chs[Len(chs) + 1 - i]])

\* flat_pulse_sequence: raises unless every child is a TimedPulse, and then
\* returns the list of children as it is.
flat_pulse_sequence(chs) ==
    IF \E i \in 1..Len(chs) : chs[i].type # "TimedPulse"
    THEN Raise(NotImplemented)
    ELSE Return(chs)

\* Variant of the loop below that forgets the duration of the new pulse.
RECURSIVE occupied_from_startonly(_, _, _)
occupied_from_startonly(seq, i, timed_pulse) ==
    IF i > Len(seq) THEN FALSE
    ELSE IF /\ seq[i].channel = timed_pulse.channel
            /\ TimedPulse_start_time(seq[i]) < TimedPulse_start_time(timed_pulse)
            /\ TimedPulse_start_time(timed_pulse) < TimedPulse_end_time(seq[i])
         THEN TRUE
         ELSE occupied_from_startonly(seq, i + 1, timed_pulse)

\* Variant of the loop below whose first comparison is inclusive.
RECURSIVE occupied_from_inclusive(_, _, _)
occupied_from_inclusive(seq, i, timed_pulse) ==
    IF i > Len(seq) THEN FALSE
    ELSE IF /\ seq[i].channel = timed_pulse.channel
            /\ TimedPulse_start_time(seq[i]) <= TimedPulse_end_time(timed_pulse)
            /\ TimedPulse_start_time(timed_pulse) < TimedPulse_end_time(seq[i])
         THEN TRUE
         ELSE occupied_from_inclusive(seq, i + 1, timed_pulse)

\* Variant of the loop below that compares the intervals on every channel.
RECURSIVE occupied_from_any_channel(_, _, _)
occupied_from_any_channel(seq, i, timed_pulse) ==
    IF i > Len(seq) THEN FALSE
    ELSE IF /\ TimedPulse_start_time(seq[i]) < TimedPulse_end_time(timed_pulse)
            /\ TimedPulse_start_time(timed_pulse) < TimedPulse_end_time(seq[i])
         THEN TRUE
         ELSE occupied_from_any_channel(seq, i + 1, timed_pulse)

\* The loop of _is_occupied_time over the flat sequence, from position i on.
RECURSIVE occupied_from(_, _, _)
occupied_from(seq, i, timed_pulse) ==
    IF i > Len(seq) THEN FALSE
    ELSE IF /\ seq[i].channel = timed_pulse.channel
            /\ TimedPulse_start_time(seq[i]) < TimedPulse_end_time(timed_pulse)
            /\ TimedPulse_start_time(timed_pulse) < TimedPulse_end_time(seq[i])
         THEN TRUE
         ELSE occupied_from(seq, i + 1, timed_pulse)

_is_occupied_time(chs, timed_pulse) ==
    IF timed_pulse.type # "TimedPulse"
    THEN Raise(NotImplemented)
    ELSE LET flat == flat_pulse_sequence(chs)
         IN  IF flat.raised # NoError THEN Raise(flat.raised)
             ELSE Return(occupied_from(flat.value, 1, timed_pulse))

\* Variant of the loop below that appends a command whenever it is a pulse.
RECURSIVE sample_lib_repeats(_, _, _)
sample_lib_repeats(chs, i, lib) ==
    IF i > Len(chs) THEN lib
    ELSE IF chs[i].command.kind \in {"FunctionalPulse", "SamplePulse"}
         THEN sample_lib_repeats(chs, i + 1, Append(lib, chs[i].command))
         ELSE sample_lib_repeats(chs, i + 1, lib)

\* The second loop of get_sample_pulses, from child i on: lib grows by the
\* command of the child when it is a pulse and lib holds no equal command.
RECURSIVE sample_lib(_, _, _)
sample_lib(chs, i, lib) ==
    IF i > Len(chs) THEN lib
    ELSE IF /\ chs[i].command.kind \in {"FunctionalPulse", "SamplePulse"}
            /\ \A k \in 1..Len(lib) : lib[k] # chs[i].command
         THEN sample_lib(chs, i + 1, Append(lib, chs[i].command))
         ELSE sample_lib(chs, i + 1, lib)

\* get_sample_pulses: raises unless every child is a TimedPulse.
get_sample_pulses(chs) ==
    IF \E i \in 1..Len(chs) : chs[i].type # "TimedPulse"
    THEN Raise(NotImplemented)
    ELSE Return(sample_lib(chs, 1, <<>>))

\* Variant of add_block that puts the block in front of the children.
add_block_prepend(chs, block) ==
    IF block.type = "PulseSchedule" /\ channel_bank # block.channel_bank
    THEN [children |-> chs, raised |-> BankError]
    ELSE LET occ == _is_occupied_time(chs, block)
         IN  IF occ.raised # NoError THEN [children |-> chs, raised |-> occ.raised]
             ELSE IF occ.value THEN [children |-> chs, raised |-> ConflictError]
             ELSE [children |-> <<block>> \o chs, raised |-> NoError]

\* Variant of add_block that appends before it checks the time slot.
add_block_append_first(chs, block) ==
    IF block.type = "PulseSchedule" /\ channel_bank # block.channel_bank
    THEN [children |-> chs, raised |-> BankError]
    ELSE LET occ == _is_occupied_time(chs, block)
         IN  IF occ.raised # NoError THEN [children |-> chs, raised |-> occ.raised]
             ELSE IF occ.value
                  THEN [children |-> Append(chs, block), raised |-> ConflictError]
                  ELSE [children |-> Append(chs, block), raised |-> NoError]

\* add_block: the new list of children and the exception raised, if any.
add_block(chs, block) ==
    IF block.type = "PulseSchedule" /\ channel_bank # block.channel_bank
    THEN [children |-> chs, raised |-> BankError]
    ELSE LET occ == _is_occupied_time(chs, block)
         IN  IF occ.raised # NoError THEN [children |-> chs, raised |-> occ.raised]
             ELSE IF occ.value THEN [children |-> chs, raised |-> ConflictError]
             ELSE [children |-> Append(chs, block), raised |-> NoError]

\* Variant of add with a single command that logs the ScheduleError of the
\* binding and returns instead of raising it again.
add_command_swallow(chs, command, channel, start_time) ==
    LET tp == TimedPulse(command, channel, start_time)
    IN  IF tp.raised # NoError
        THEN [children |-> chs, raised |-> NoError, pre |-> chs]
        ELSE LET r == add_block(chs, tp.value)
             IN  [children |-> r.children, raised |-> r.raised, pre |-> chs,
                  added |-> tp.value]

\* add with a single command: bind it and add the block; a ScheduleError of
\* either step is raised again as a ScheduleError with the same message.
add_command(chs, command, channel, start_time) ==
    LET tp == TimedPulse(command, channel, start_time)
    IN  IF tp.raised # NoError
        THEN [children |-> chs, raised |-> tp.raised, pre |-> chs]
        ELSE LET r == add_block(chs, tp.value)
             IN  [children |-> r.children, raised |-> r.raised, pre |-> chs,
                  added |-> tp.value]

\* add with a list: add the commands one by one, from position i on; the
\* first exception ends the loop and leaves the earlier commands in place.
\* acc is the outcome of the calls made so far, acc.added what they inserted.
RECURSIVE add_list(_, _, _, _, _)
add_list(acc, commands, i, channel, start_time) ==
    IF i > Len(commands) THEN acc
    ELSE LET r == add_command(acc.children, commands[i], channel, start_time)
         IN  IF r.raised # NoError
             THEN [children |-> r.children, raised |-> r.raised, pre |-> r.pre,
                   added |-> acc.added]
             ELSE add_list([children |-> r.children, raised |-> NoError,
                            pre |-> r.pre, added |-> Append(acc.added, r.added)],
                           commands, i + 1, channel, start_time)

\* Python's min and max of a list: ValueError on the empty list.
RECURSIVE min_from(_, _, _)
min_from(seq, i, best) ==
    IF i > Len(seq) THEN best
    ELSE min_from(seq, i + 1, IF seq[i] < best THEN seq[i] ELSE best)

RECURSIVE max_from(_, _, _)
max_from(seq, i, best) ==
    IF i > Len(seq) THEN best
    ELSE max_from(seq, i + 1, IF seq[i] > best THEN seq[i] ELSE best)

py_min(seq) == IF seq = <<>> THEN Raise(ValueError) ELSE Return(min_from(seq, 2, seq[1]))

py_max(seq) == IF seq = <<>> THEN Raise(ValueError) ELSE Return(max_from(seq, 2, seq[1]))

\* _start_time / _end_time of a block, and the list comprehensions over the
\* children of a schedule (an exception inside the comprehension propagates).
RECURSIVE _start_time(_), start_times(_, _, _)
_start_time(block) ==
    IF block.type = "TimedPulse" THEN Return(TimedPulse_start_time(block))
    ELSE LET l == start_times(block.children, 1, <<>>)
         IN  IF l.raised # NoError THEN l ELSE py_min(l.value)

start_times(chs, i, out) ==
    IF i > Len(chs) THEN Return(out)
    ELSE LET t == _start_time(chs[i])
         IN  IF t.raised # NoError THEN t
             ELSE start_times(chs, i + 1, Append(out, t.value))

\* Variant of _end_time that forgets the duration of a pulse.
_end_time_no_duration(block) ==
    IF block.type = "TimedPulse" THEN Return(TimedPulse_start_time(block))
    ELSE Raise(NotImplemented)

RECURSIVE _end_time(_), end_times(_, _, _)
_end_time(block) ==
    IF block.type = "TimedPulse" THEN Return(TimedPulse_end_time(block))
    ELSE LET l == end_times(block.children, 1, <<>>)
         IN  IF l.raised # NoError THEN l ELSE py_max(l.value)

end_times(chs, i, out) ==
    IF i > Len(chs) THEN Return(out)
    ELSE LET t == _end_time(chs[i])
         IN  IF t.raised # NoError THEN t
             ELSE end_times(chs, i + 1, Append(out, t.value))

\* PulseSchedule.start_time / end_time / duration.
start_time(chs) ==
    LET l == start_times(chs, 1, <<>>)
    IN  IF l.raised # NoError THEN l ELSE py_min(l.value)

end_time(chs) ==
    LET l == end_times(chs, 1, <<>>)
    IN  IF l.raised # NoError THEN l ELSE py_max(l.value)

duration(chs) ==
    LET e == end_time(chs)
    IN  IF e.raised # NoError THEN e
        ELSE LET s == start_time(chs)
             IN  IF s.raised # NoError THEN s ELSE Return(e.value - s.value)

(* ------------------------------- CmdDef -------------------------------- *)
\* A Python dict as a function on its keys (the order of the keys is left out).
EmptyDict == [k \in {} |-> {}]

DictSet(d, k, v) == [x \in (DOMAIN d) \cup {k} |-> IF x = k THEN v ELSE d[x]]

DictDel(d, k) == [x \in (DOMAIN d) \ {k} |-> d[x]]

\* The inputs of the table: command names (one of them is the string
\* 'cmd'), qubits given as a tuple or as a list, schedules, and defaults: None
\* (the default of the parameter), a schedule, and an empty value.
CmdNames == {"cmd", "u3"}

QubitItems == {<<0>>, <<0, 1>>}

QubitArgs == {[form |-> f, items |-> q] : f \in {"tuple", "list"}, q \in QubitItems}

\* Qubits given as a tuple.
TupleArg(items) == [form |-> "tuple", items |-> items]

Schedules == {"sched_a", "sched_b"}

EmptyValue == "empty"

Defaults == {NoneValue, "sched_default", EmptyValue}

\* Python's truth value of a default.
Truthy(v) == v \notin {NoneValue, EmptyValue}

TypeError == "TypeError: unhashable type: 'list'"

KeyError == "KeyError: 'name'"

UndefinedCommandError == "ScheduleError: Command is not present in CmdDef"

\* CmdDef.add: the group is looked up under the string 'cmd'.
CmdDef_add(d, cmd_name, qubits, schedule) ==
    LET key == qubits.items
        group == IF "cmd" \in DOMAIN d THEN d["cmd"] ELSE EmptyDict
    IN  DictSet(d, "cmd", DictSet(group, key, schedule))

\* CmdDef.has_cmd: `qubits in dict` hashes qubits, which a list does not allow.
CmdDef_has_cmd(d, cmd_name, qubits) ==
    IF cmd_name \in DOMAIN d
    THEN IF qubits.form = "list" THEN Raise(TypeError)
         ELSE Return(qubits.items \in DOMAIN d[cmd_name])
    ELSE Return(FALSE)

\* The message of the miss is built by str.format with the fields {name} and
\* {qubits} and two positional arguments, which raises KeyError.
missing_command(cmd_name, qubits) == Raise(KeyError)

\* CmdDef.get.
CmdDef_get(d, cmd_name, qubits, default) ==
    LET has == CmdDef_has_cmd(d, cmd_name, qubits)
    IN  IF has.raised # NoError THEN has
        ELSE IF has.value THEN Return(d[cmd_name][qubits.items])
        ELSE IF Truthy(default) THEN Return(default)
        ELSE missing_command(cmd_name, qubits)

\* Variant of pop that leaves the group of the name in the table.
CmdDef_pop_keeps_group(d, cmd_name, qubits, default) ==
    LET has == CmdDef_has_cmd(d, cmd_name, qubits)
    IN  IF has.raised # NoError THEN [dict |-> d, raised |-> has.raised]
        ELSE IF has.value
        THEN [dict |-> DictSet(d, cmd_name, DictDel(d[cmd_name], qubits.items)),
              raised |-> NoError, value |-> d[cmd_name][qubits.items]]
        ELSE IF Truthy(default)
        THEN [dict |-> d, raised |-> NoError, value |-> default]
        ELSE [dict |-> d, raised |-> missing_command(cmd_name, qubits).raised]

\* CmdDef.pop: the table it leaves and what it returns or raises.
CmdDef_pop(d, cmd_name, qubits, default) ==
    LET has == CmdDef_has_cmd(d, cmd_name, qubits)
    IN  IF has.raised # NoError THEN [dict |-> d, raised |-> has.raised]
        ELSE IF has.value
        THEN LET group == DictDel(d[cmd_name], qubits.items)
             IN  [dict |-> IF DOMAIN group = {} THEN DictDel(d, cmd_name)
                           ELSE DictSet(d, cmd_name, group),
                  raised |-> NoError, value |-> d[cmd_name][qubits.items]]
        ELSE IF Truthy(default)
        THEN [dict |-> d, raised |-> NoError, value |-> default]
        ELSE [dict |-> d, raised |-> missing_command(cmd_name, qubits).raised]

\* CmdDef.cmd_types: the keys of the table.
CmdDef_cmd_types(d) == DOMAIN d

\* CmdDef.__iter__ / cmds: what the generator yields, ((name, qubits), schedule).
CmdDef_iter(d) ==
    {<< <<n, q>>, d[n][q] >> : <<n, q>> \in {x \in (DOMAIN d) \X QubitItems :
                                              x[2] \in DOMAIN d[x[1]]}}

\* CmdDef.__getitem__ and __setitem__: key is (name, *qubits).
CmdDef_getitem(d, key) ==
    CmdDef_get(d, key[1], [form |-> "tuple", items |-> Tail(key)], NoneValue)

CmdDef_setitem(d, key, item) ==
    CmdDef_add(d, key[1], [form |-> "tuple", items |-> Tail(key)], item)

(* ------------------------------ the calls ------------------------------ *)
\* PulseSchedule.__init__: an empty schedule.
Init ==
    /\ children = <<>>
    /\ inserted = <<>>
    /\ op = "__init__"
    /\ err = NoError
    /\ ret = NoneValue
    /\ pre = <<>>
    /\ cmd_dict = EmptyDict
    /\ defined = {}
    /\ threads = <<>>
    /\ detached = EmptyDict

\* The calls are made while the schedule holds fewer than MaxChildren
\* children and never grow it beyond MaxChildren.

\* sched.add(command, channel, start_time) with a single command.
Add(command, channel, t) ==
    LET r == add_command(children, command, channel, t)
    IN  /\ Len(children) < MaxChildren
        /\ Len(r.children) <= MaxChildren
        /\ children' = r.children
        /\ inserted' = IF r.raised = NoError THEN Append(inserted, r.added) ELSE inserted
        /\ op' = "add"
        /\ err' = r.raised
        /\ ret' = NoneValue
        /\ pre' = r.pre
        /\ UNCHANGED <<table_vars, pop_vars>>

\* sched.add(commands, channel, start_time) with a list of commands.
AddList(commands, channel, t) ==
    LET r == add_list([children |-> children, raised |-> NoError, pre |-> children,
                       added |-> <<>>],
                      commands, 1, channel, t)
    IN  /\ Len(children) < MaxChildren
        /\ Len(r.children) <= MaxChildren
        /\ children' = r.children
        /\ inserted' = inserted \o r.added
        /\ op' = "add"
        /\ err' = r.raised
        /\ ret' = NoneValue
        /\ pre' = r.pre
        /\ UNCHANGED <<table_vars, pop_vars>>

\* sched.add_block(block) with an instruction or with another schedule.
AddBlock(block) ==
    LET r == add_block(children, block)
    IN  /\ Len(children) < MaxChildren
        /\ Len(r.children) <= MaxChildren
        /\ children' = r.children
        /\ inserted' = IF r.raised = NoError THEN Append(inserted, block) ELSE inserted
        /\ op' = "add_block"
        /\ err' = r.raised
        /\ ret' = NoneValue
        /\ pre' = children
        /\ UNCHANGED <<table_vars, pop_vars>>

\* The lists add() is called with: up to MaxList commands, each a sample
\* pulse, a frame change or an acquire.
CommandLists == UNION {[1..n -> {pulse1, fc_pi_2, acquire}] : n \in 0..MaxList}

Next ==
    \/ \E c \in Commands, ch \in Channels, t \in Times : Add(c, ch, t)
    \/ \E cs \in CommandLists, ch \in Channels, t \in Times : AddList(cs, ch, t)
    \/ \E b \in TimedPulses \cup BlockSchedules : AddBlock(b)

Spec == Init /\ [][Next]_vars

(* ------------------------- the calls of the table ---------------------- *)
\* The entries of the history of definitions under a key.
Keyed(name, items) == {x \in defined : x[1] = name /\ x[2] = items}

Define(cmd_name, qubits, schedule) ==
    /\ cmd_dict' = CmdDef_add(cmd_dict, cmd_name, qubits, schedule)
    /\ defined' = (defined \ Keyed(cmd_name, qubits.items))
                       \cup {<<cmd_name, qubits.items, schedule>>}
    /\ op' = "CmdDef.add"
    /\ err' = NoError
    /\ ret' = NoneValue
    /\ UNCHANGED <<sched_vars, pop_vars>>

SetItem(cmd_name, items, schedule) ==
    /\ cmd_dict' = CmdDef_setitem(cmd_dict, <<cmd_name>> \o items, schedule)
    /\ defined' = (defined \ Keyed(cmd_name, items)) \cup {<<cmd_name, items, schedule>>}
    /\ op' = "CmdDef.__setitem__"
    /\ err' = NoError
    /\ ret' = NoneValue
    /\ UNCHANGED <<sched_vars, pop_vars>>

HasCmd(cmd_name, qubits) ==
    LET r == CmdDef_has_cmd(cmd_dict, cmd_name, qubits)
    IN  /\ op' = "CmdDef.has_cmd"
        /\ err' = r.raised
        /\ ret' = IF r.raised = NoError THEN r.value ELSE NoneValue
        /\ UNCHANGED <<sched_vars, table_vars, pop_vars>>

Lookup(cmd_name, qubits, default) ==
    LET r == CmdDef_get(cmd_dict, cmd_name, qubits, default)
    IN  /\ op' = "CmdDef.get"
        /\ err' = r.raised
        /\ ret' = IF r.raised = NoError THEN r.value ELSE NoneValue
        /\ UNCHANGED <<sched_vars, table_vars, pop_vars>>

GetItem(cmd_name, items) ==
    LET r == CmdDef_getitem(cmd_dict, <<cmd_name>> \o items)
    IN  /\ op' = "CmdDef.__getitem__"
        /\ err' = r.raised
        /\ ret' = IF r.raised = NoError THEN r.value ELSE NoneValue
        /\ UNCHANGED <<sched_vars, table_vars, pop_vars>>

Remove(cmd_name, qubits, default) ==
    LET r == CmdDef_pop(cmd_dict, cmd_name, qubits, default)
    IN  /\ cmd_dict' = r.dict
        /\ defined' = IF r.raised = NoError
                       THEN defined \ Keyed(cmd_name, qubits.items)
                       ELSE defined
        /\ op' = "CmdDef.pop"
        /\ err' = r.raised
        /\ ret' = IF r.raised = NoError THEN r.value ELSE NoneValue
        /\ UNCHANGED <<sched_vars, pop_vars>>

CmdTypes ==
    /\ op' = "CmdDef.cmd_types"
    /\ err' = NoError
    /\ ret' = CmdDef_cmd_types(cmd_dict)
    /\ UNCHANGED <<sched_vars, table_vars, pop_vars>>

Cmds ==
    /\ op' = "CmdDef.cmds"
    /\ err' = NoError
    /\ ret' = CmdDef_iter(cmd_dict)
    /\ UNCHANGED <<sched_vars, table_vars, pop_vars>>

NextCmdDef ==
    \/ \E n \in CmdNames, q \in QubitArgs, t \in Schedules : Define(n, q, t)
    \/ \E n \in CmdNames, q \in QubitItems, t \in Schedules : SetItem(n, q, t)
    \/ \E n \in CmdNames, q \in QubitArgs : HasCmd(n, q)
    \/ \E n \in CmdNames, q \in QubitArgs, d \in Defaults : Lookup(n, q, d)
    \/ \E n \in CmdNames, q \in QubitItems : GetItem(n, q)
    \/ \E n \in CmdNames, q \in QubitArgs, d \in Defaults : Remove(n, q, d)
    \/ CmdTypes
    \/ Cmds

SpecCmdDef == Init /\ [][NextCmdDef]_vars

TypeOK ==
    /\ Len(children) <= MaxChildren
    /\ \A i \in 1..Len(children) : children[i] \in TimedPulses

(* ------------------------------ claims --------------------------------- *)
\* Two intervals [s1, e1) and [s2, e2) overlap iff s1 < e2 and s2 < e1.
Overlaps(a, b) ==
    /\ a.t0 < b.t0 + b.command.duration
    /\ b.t0 < a.t0 + a.command.duration

\* Some child of chs is on the channel of tp and overlaps it.
Clashes(chs, tp) ==
    \E i \in 1..Len(chs) : chs[i].channel = tp.channel /\ Overlaps(chs[i], tp)

\* C1: in every schedule reachable from the empty one by add / add_block
\* calls, successful or failing, any two distinct children on the same
\* channel occupy non-overlapping intervals.
C1_NoOverlap ==
    \A i, j \in 1..Len(children) :
        (i # j /\ children[i].channel = children[j].channel)
            => ~Overlaps(children[i], children[j])

\* Two pulses of positive duration share a channel.
C1_Witness ==
    /\ Len(children) = 2
    /\ children[1].channel = children[2].channel
    /\ children[1].command.duration > 0
    /\ children[2].command.duration > 0

\* C2: inserting an instruction fails with the conflict error if and only
\* if a child of the schedule is on the same channel and overlaps it, through
\* add_block and through add (where a command that does not bind fails with
\* the mismatch error instead); so touching intervals are accepted, and the
\* instruction an accepted insert appended overlaps nothing that was there.
C2_ConflictIffOverlap ==
    /\ \A tp \in TimedPulses :
           (add_block(children, tp).raised = ConflictError) <=> Clashes(children, tp)
    /\ \A tp \in TimedPulses :
           (add_block(children, tp).raised = NoError) <=> ~Clashes(children, tp)
    /\ \A c \in Commands, ch \in Channels, t \in Times :
           (add_command(children, c, ch, t).raised = ConflictError)
               <=> /\ TimedPulse(c, ch, t).raised = NoError
                   /\ Clashes(children, TimedPulse(c, ch, t).value)
    /\ (err = NoError /\ Len(children) = Len(pre) + 1)
           => ~Clashes(pre, children[Len(children)])

\* A pulse was accepted right where the pulse before it ends, and the
\* schedule would reject another instruction.
C2_Witness ==
    /\ op = "add"
    /\ err = NoError
    /\ Len(children) = 2
    /\ children[1].channel = children[2].channel
    /\ children[1].command.duration > 0
    /\ children[2].command.duration > 0
    /\ children[2].t0 = children[1].t0 + children[1].command.duration
    /\ \E tp \in TimedPulses : add_block(children, tp).raised = ConflictError

\* C3: an insert of one instruction (add_block of an instruction, add of a
\* single command, each insert add makes for an element of a list) that fails
\* on a time conflict leaves the list of children as it found it.
C3_FailedInsertUnchanged ==
    /\ err = ConflictError => children = pre
    /\ \A tp \in TimedPulses :
           add_block(children, tp).raised = ConflictError
               => add_block(children, tp).children = children
    /\ \A c \in Commands, ch \in Channels, t \in Times :
           add_command(children, c, ch, t).raised = ConflictError
               => add_command(children, c, ch, t).children = children

\* add_block has just refused an instruction for a non-empty schedule.
C3_Witness ==
    /\ op = "add_block"
    /\ err = ConflictError
    /\ children # <<>>

\* C4: a successful insert returns a new schedule and leaves the receiver's
\* children as they were before the call.
C4_InsertIsPure ==
    (op \in {"add", "add_block"} /\ err = NoError /\ inserted # <<>>)
        => (children = pre /\ ret # NoneValue)

\* C5: the flattened sequence of every reachable schedule is non-decreasing
\* in start time.
C5_FlatOrdered ==
    LET flat == flat_pulse_sequence(children)
    IN  /\ flat.raised = NoError
        /\ \A i \in 1..(Len(flat.value) - 1) :
               flat.value[i].t0 <= flat.value[i + 1].t0

\* The instructions of seq that start at t, in the order of seq.
StartingAt(seq, t) == SelectSeq(seq, LAMBDA x : x.t0 = t)

\* C6: the flattened sequence holds every successfully inserted instruction
\* exactly once and nothing else, and instructions with the same start time
\* come in the order of their insertion: for every start time, the flattened
\* instructions starting then are the inserted ones starting then, in order.
C6_FlatExactStable ==
    LET flat == flat_pulse_sequence(children)
    IN  /\ flat.raised = NoError
        /\ Len(flat.value) = Len(inserted)
        /\ \A t \in Times : StartingAt(flat.value, t) = StartingAt(inserted, t)

\* Two different instructions with the same start time were inserted.
C6_Witness ==
    /\ Len(inserted) = 2
    /\ inserted[1].t0 = inserted[2].t0
    /\ inserted[1] # inserted[2]

\* C7: start_time, end_time and duration of the empty schedule return 0.
C7_EmptyTimesZero ==
    children = <<>>
        => /\ start_time(children).raised = NoError
           /\ start_time(children).value = 0
           /\ end_time(children).raised = NoError
           /\ end_time(children).value = 0
           /\ duration(children).raised = NoError
           /\ duration(children).value = 0

\* C8: for a non-empty schedule start_time is the least start time of its
\* instructions, end_time the greatest start time + duration, and duration
\* their difference, which is not negative.
C8_TimesAreMinMax ==
    children # <<>>
        => LET s == start_time(children)
               e == end_time(children)
               d == duration(children)
               I == 1..Len(children)
           IN  /\ s.raised = NoError /\ e.raised = NoError /\ d.raised = NoError
               /\ \E i \in I : s.value = children[i].t0
               /\ \A i \in I : s.value <= children[i].t0
               /\ \E i \in I : e.value = children[i].t0 + children[i].command.duration
               /\ \A i \in I : e.value >= children[i].t0 + children[i].command.duration
               /\ d.value = e.value - s.value
               /\ d.value >= 0

\* The earliest instruction was not inserted first and the latest end is
\* not the end of the last one.
C8_Witness ==
    /\ Len(children) = 2
    /\ children[2].t0 < children[1].t0
    /\ children[2].t0 + children[2].command.duration
           < children[1].t0 + children[1].command.duration
    /\ duration(children).value = 2

\* C9: binding a command to a channel whose class does not support it raises
\* the mismatch error and yields no instruction; inside add the error reaches
\* the caller and the insert leaves the children as it found them; binding a
\* supported command succeeds whatever the schedule holds at that time.
C9_MismatchRejected ==
    /\ \A c \in Commands, ch \in Channels, t \in Times :
           LET b == TimedPulse(c, ch, t)
               r == add_command(children, c, ch, t)
           IN  IF c.kind \in supported(ch.kind)
               THEN /\ b.raised = NoError
                    /\ r.raised \in {NoError, ConflictError}
               ELSE /\ b.raised = MismatchError
                    /\ r.raised = MismatchError
                    /\ r.children = children
    /\ err = MismatchError => (op = "add" /\ children = pre)
    /\ \A i \in 1..Len(children) :
           children[i].command.kind \in supported(children[i].channel.kind)

\* add has just raised the mismatch error for a non-empty schedule, and a
\* supported command binds although the schedule is occupied at its time.
C9_Witness ==
    /\ op = "add"
    /\ err = MismatchError
    /\ children # <<>>
    /\ \E tp \in TimedPulses : Clashes(children, tp)

\* Channels of the backend beyond those the calls above use.
MoreChannels ==
    Channels \cup {[kind |-> "DriveChannel", index |-> 1],
                   [kind |-> "MeasureChannel", index |-> 0]}

\* Every instruction that binds to one of these channels.
MoreTimedPulses ==
    {TimedPulse(c, ch, t).value :
        <<c, ch, t>> \in {x \in Commands \X MoreChannels \X Times :
                             TimedPulse(x[1], x[2], x[3]).raised = NoError}}

\* C11: instructions on different channels never conflict, whatever their
\* times: an instruction for a channel that no child of the schedule is on is
\* accepted and appended, a conflict error names a child on the very channel
\* of the instruction, and a schedule that holds A and B on two channels over
\* the same interval refuses a third instruction that overlaps A on the
\* channel of A.
C11_ChannelsIndependent ==
    \A tp \in MoreTimedPulses :
        LET r == add_block(children, tp)
            I == 1..Len(children)
        IN  /\ (\A i \in I : children[i].channel # tp.channel)
                   => (r.raised = NoError /\ r.children = Append(children, tp))
            /\ r.raised = ConflictError
                   => \E i \in I : children[i].channel = tp.channel
            /\ ( /\ Len(children) = 2
                 /\ children[1].channel # children[2].channel
                 /\ children[1].channel = tp.channel
                 /\ Overlaps(children[1], tp) )
                   => (r.raised = ConflictError /\ r.children = children)

\* Two pulses occupy the same interval on the drive and the control channel;
\* a third pulse that overlaps them is refused on the drive channel and
\* accepted on a channel nothing is on.
C11_Witness ==
    /\ Len(children) = 2
    /\ err = NoError
    /\ children[1] = TimedPulse(pulse0, [kind |-> "DriveChannel", index |-> 0], 0).value
    /\ children[2] = TimedPulse(pulse0, [kind |-> "ControlChannel", index |-> 0], 0).value
    /\ add_block(children,
            TimedPulse(pulse0, [kind |-> "DriveChannel", index |-> 0], 1).value).raised
           = ConflictError
    /\ add_block(children,
            TimedPulse(pulse0, [kind |-> "MeasureChannel", index |-> 0], 1).value).raised
           = NoError

\* C12: the pulse library of a schedule holds every sample or functional
\* pulse command that an instruction of the schedule uses, no command of
\* another kind and no command that no instruction uses, and no two equal
\* commands, however often a command was inserted.
C12_SamplePulsesExact ==
    LET lib == get_sample_pulses(children)
        I == 1..Len(children)
    IN  /\ lib.raised = NoError
        /\ \A i \in I :
               children[i].command.kind \in {"FunctionalPulse", "SamplePulse"}
                   => \E k \in 1..Len(lib.value) : lib.value[k] = children[i].command
        /\ \A k \in 1..Len(lib.value) :
               /\ lib.value[k].kind \in {"FunctionalPulse", "SamplePulse"}
               /\ \E i \in I : children[i].command = lib.value[k]
        /\ \A k, l \in 1..Len(lib.value) : k # l => lib.value[k] # lib.value[l]

\* The same pulse was inserted twice and the library holds it once.
C12_Witness ==
    /\ Len(children) = 2
    /\ children[1].command = children[2].command
    /\ children[1].command.kind = "SamplePulse"
    /\ Len(get_sample_pulses(children).value) = 1

\* C10: for a schedule that holds only p, inserting q is refused on a
\* conflict if and only if a schedule that holds only q refuses p.
C10_ConflictSymmetric ==
    Len(children) = 1
        => \A q \in TimedPulses :
               (add_block(children, q).raised = ConflictError)
                   <=> (add_block(<<q>>, children[1]).raised = ConflictError)

\* A schedule that holds one pulse has just refused another instruction, and
\* it accepts an instruction that touches the pulse.
C10_Witness ==
    /\ Len(children) = 1
    /\ op = "add"
    /\ err = ConflictError
    /\ children[1].command.duration > 0
    /\ \E q \in TimedPulses :
           /\ q.channel = children[1].channel
           /\ q.t0 = children[1].t0 + children[1].command.duration
           /\ add_block(children, q).raised = NoError

\* C25: add with a list of commands is all-or-nothing: when it raises, the
\* children are those before the call.
C25_AddListAllOrNothing ==
    [][\A cs \in CommandLists, ch \in Channels, t \in Times :
           (AddList(cs, ch, t) /\ err' # NoError) => children' = children]_vars

\* C26: add_block of a schedule on the same channel bank, none of whose
\* instructions overlaps a child of the parent on its channel, succeeds, and
\* afterwards the flattened sequence and the start and end time of the parent
\* include the instructions of the sub-schedule.
C26_SubScheduleInserted ==
    [][\A b \in BlockSchedules :
           ( /\ b.channel_bank = channel_bank
             /\ \A k \in 1..Len(b.children) : ~Clashes(children, b.children[k])
             /\ AddBlock(b) )
               => /\ err' = NoError
                  /\ Len(children') = Len(children) + 1
                  /\ flat_pulse_sequence(children').raised = NoError
                  /\ \A k \in 1..Len(b.children) :
                         /\ \E i \in 1..Len(flat_pulse_sequence(children').value) :
                                flat_pulse_sequence(children').value[i] = b.children[k]
                         /\ start_time(children').value <= b.children[k].t0
                         /\ end_time(children').value
                                >= TimedPulse_end_time(b.children[k])]_vars

\* Commands of no duration, and the channels that take them.
persistent_value == [kind |-> "PersistentValue", name |-> "pv", duration |-> 0]

snapshot == [kind |-> "Snapshot", name |-> "snapshot", duration |-> 0]

ZeroDurationPulses ==
    {TimedPulse(c, ch, t).value :
        <<c, ch, t>> \in
            {x \in {fc_pi_2, acquire, persistent_value, snapshot}
                     \X (MoreChannels \cup {[kind |-> "SnapshotChannel", index |-> 0]})
                     \X Times :
                TimedPulse(x[1], x[2], x[3]).raised = NoError}}

\* C27: an instruction of no duration at time t on channel c is refused
\* (with the conflict error) if and only if a child on c has start < t < end,
\* and is appended otherwise: at the start or the end of a child, and at the
\* time of any number of instructions of no duration on c.
C27_ZeroDurationRule ==
    \A tp \in ZeroDurationPulses :
        LET r == add_block(children, tp)
            I == 1..Len(children)
            inside == \E i \in I : /\ children[i].channel = tp.channel
                                    /\ children[i].t0 < tp.t0
                                    /\ tp.t0 < TimedPulse_end_time(children[i])
        IN  /\ r.raised = (IF inside THEN ConflictError ELSE NoError)
            /\ ~inside => r.children = Append(children, tp)
            /\ (\E i \in I : /\ children[i].channel = tp.channel
                               /\ tp.t0 \in {children[i].t0, TimedPulse_end_time(children[i])}
                               /\ \A j \in I : children[j].command.duration = 0 \/ j = i)
                   => r.raised = NoError

\* The schedule holds a pulse over [0, 2) and a frame change at its start: a
\* frame change is refused at 1 on that channel, and accepted at 0, where the
\* pulse starts and a frame change is already.
C27_Witness ==
    /\ Len(children) = 2
    /\ children[1] = TimedPulse(pulse0, [kind |-> "DriveChannel", index |-> 0], 0).value
    /\ children[2] = TimedPulse(fc_pi_2, [kind |-> "DriveChannel", index |-> 0], 0).value
    /\ add_block(children,
            TimedPulse(fc_pi_2, [kind |-> "DriveChannel", index |-> 0], 1).value).raised
           = ConflictError
    /\ add_block(children,
            TimedPulse(persistent_value, [kind |-> "DriveChannel", index |-> 0], 0).value).raised
           = NoError

\* C29: a successful add or add_block of one instruction changes the
\* children only by appending that instruction as the last child, and no call
\* removes or reorders a child: the children before a call are a prefix of the
\* children after it.
C29_AppendsLast ==
    [][ /\ Len(children') >= Len(children)
        /\ SubSeq(children', 1, Len(children)) = children
        /\ \A c \in Commands, ch \in Channels, t \in Times :
               (Add(c, ch, t) /\ err' = NoError)
                   => children' = Append(children, TimedPulse(c, ch, t).value)
        /\ \A tp \in TimedPulses :
               (AddBlock(tp) /\ err' = NoError) => children' = Append(children, tp)
      ]_vars

\* add_block has just appended a second instruction that starts before the
\* first one.
C29_Witness ==
    /\ op = "add_block"
    /\ err = NoError
    /\ Len(children) = 2
    /\ children = Append(pre, children[2])
    /\ children[2].t0 < children[1].t0

(* --------------------- Schedule: shift, insert, append ------------------ *)
\* ScheduleComponent declares shift, insert and append (common/interfaces.py)
\* and defines << and >> by shift; the class that implements them is not
\* part of the sources, so the three are taken from their description: a
\* schedule is its list of instructions, every operation returns a new one.
NegativeTimeError == "NegativeTimeError"

\* The schedules the operations are applied to: no instruction, one, or two
\* that do not overlap on a channel.
ValidSchedules ==
    {<<>>} \cup {<<a>> : a \in TimedPulses}
    \cup {<<x[1], x[2]>> : x \in {y \in TimedPulses \X TimedPulses :
              y[1].channel = y[2].channel
                  => ~( /\ TimedPulse_start_time(y[1]) < TimedPulse_end_time(y[2])
                        /\ TimedPulse_start_time(y[2]) < TimedPulse_end_time(y[1]) )}}

\* The schedules given to append: empty, one instruction, or two channels.
AppendedSchedules ==
    {<<>>} \cup {<<a>> : a \in TimedPulses}
    \cup {<< TimedPulse(pulse1, [kind |-> "DriveChannel", index |-> 0], 0).value,
             TimedPulse(pulse0, [kind |-> "ControlChannel", index |-> 0], 0).value >>}

Shifts == (0 - MaxShift)..MaxShift

\* The instructions of a schedule moved by time.
moved(chs, time) == [i \in 1..Len(chs) |-> [chs[i] EXCEPT !.t0 = @ + time]]

\* shift: a new schedule moved by time, which may be negative as long as no
\* start time becomes negative.
shift(chs, time) ==
    IF \E i \in 1..Len(chs) : chs[i].t0 + time < 0
    THEN Raise(NegativeTimeError)
    ELSE Return(moved(chs, time))

\* __lshift__ and __rshift__ of ScheduleComponent.
__lshift__(chs, time) == shift(chs, time)

\* Variant of __rshift__ that shifts by time.
__rshift___by_time(chs, time) == shift(chs, time)

__rshift__(chs, time) == shift(chs, 0 - time)

\* insert: schedule moved by at_time (start_time) and merged with the instructions of
\* chs; two overlapping intervals on one channel are a conflict.
insert(chs, at_time, schedule) ==
    LET new == moved(schedule, at_time)
    IN  IF \E i \in 1..Len(chs), j \in 1..Len(new) :
               /\ chs[i].channel = new[j].channel
               /\ TimedPulse_start_time(chs[i]) < TimedPulse_end_time(new[j])
               /\ TimedPulse_start_time(new[j]) < TimedPulse_end_time(chs[i])
        THEN Raise(ConflictError)
        ELSE Return(chs \o new)

\* Variant of ch_stop_time that takes the greatest start time.
ch_stop_time_of_starts(chs, channels) ==
    LET starts == {chs[i].t0 : i \in {k \in 1..Len(chs) : chs[k].channel \in channels}}
    IN  IF starts = {} THEN 0 ELSE CHOOSE e \in starts : \A f \in starts : f <= e

\* ch_stop_time: the greatest end time of chs on the channels, 0 when it
\* holds nothing on them.
ch_stop_time(chs, channels) ==
    LET ends == {TimedPulse_end_time(chs[i]) : i \in {k \in 1..Len(chs) : chs[k].channel \in channels}}
    IN  IF ends = {} THEN 0 ELSE CHOOSE e \in ends : \A f \in ends : f <= e

channels_of(chs) == {chs[i].channel : i \in 1..Len(chs)}

\* append: insert at the greatest stop time of chs over the channels that
\* chs and schedule share.
append(chs, schedule) ==
    insert(chs, ch_stop_time(chs, channels_of(chs) \cap channels_of(schedule)), schedule)

\* flatten: the instructions by start time, those with the same start time
\* in the order of the list.
RECURSIVE flatten(_)
flatten(chs) ==
    IF chs = <<>> THEN <<>>
    ELSE LET first == CHOOSE i \in 1..Len(chs) :
                          /\ \A j \in 1..Len(chs) : chs[i].t0 <= chs[j].t0
                          /\ \A j \in 1..(i - 1) : chs[j].t0 # chs[i].t0
         IN  <<chs[first]>> \o flatten(SubSeq(chs, 1, first - 1)
                                           \o SubSeq(chs, first + 1, Len(chs)))

InitAlgebra ==
    /\ children \in ValidSchedules
    /\ inserted = children
    /\ op = "__init__"
    /\ err = NoError
    /\ ret = NoneValue
    /\ pre = <<>>
    /\ cmd_dict = EmptyDict
    /\ defined = {}
    /\ threads = <<>>
    /\ detached = EmptyDict

\* s.shift(time) and s.append(schedule): the schedule s stays as it is, ret
\* is the schedule returned.
Shift(time) ==
    LET r == shift(children, time)
    IN  /\ op' = "shift"
        /\ err' = r.raised
        /\ ret' = IF r.raised = NoError THEN r.value ELSE <<>>
        /\ UNCHANGED <<sched_vars, table_vars, pop_vars>>

AppendSchedule(schedule) ==
    LET r == append(children, schedule)
    IN  /\ op' = "append"
        /\ err' = r.raised
        /\ ret' = IF r.raised = NoError THEN r.value ELSE <<>>
        /\ UNCHANGED <<sched_vars, table_vars, pop_vars>>

NextAlgebra ==
    \/ \E t \in Shifts : Shift(t)
    \/ \E b \in AppendedSchedules : AppendSchedule(b)

SpecAlgebra == InitAlgebra /\ [][NextAlgebra]_vars

(* ------------------------- PulseQobjConverter -------------------------- *)
\* The instructions handed to the converter: the five classes of
\* qiskit.pulse.commands that a converter is bound to, and CustomInstruction,
\* a class of a third party (class docstring of PulseQobjConverter).
InstructionTypes ==
    {"AcquireInstruction", "FrameChangeInstruction", "PersistentValueInstruction",
     "DriveInstruction", "Snapshot", "CustomInstruction"}

command_name(type) ==
    CASE type = "AcquireInstruction"         -> "acquire"
      [] type = "FrameChangeInstruction"     -> "fc"
      [] type = "PersistentValueInstruction" -> "pv"
      [] type = "DriveInstruction"           -> "pulse0"
      [] type = "Snapshot"                   -> "snapshot"
      [] type = "CustomInstruction"          -> "custom"

Instructions ==
    {[type |-> k, start_time |-> t, command |-> command_name(k)] :
        k \in InstructionTypes, t \in Times}

\* The methods of a converter in the order of the class body. A name is
\* the list of its parts, so that startswith('_convert_') is a test of the
\* first part; bound is the class bind_instruction got, qobj the 'name' field
\* of the dictionary the converter builds ("command" for instruction.command.name).
Method(name, bound, qobj) == [name |-> name, bound |-> bound, qobj |-> qobj]

PulseQobjConverter_methods ==
    << Method(<<"__init__">>, "none", "none"),
       Method(<<"__call__">>, "none", "none"),
       Method(<<"_convert_", "acquire">>, "AcquireInstruction", "acquire"),
       Method(<<"_convert_", "frame_change">>, "FrameChangeInstruction", "fc"),
       Method(<<"_convert_", "persistent_value">>, "PersistentValueInstruction", "pv"),
       Method(<<"_convert_", "drive">>, "DriveInstruction", "command"),
       Method(<<"_convert_", "snapshot">>, "Snapshot", "snapshot") >>

\* class CustomConverter(PulseQobjConverter) of the class docstring.
CustomConverter_methods ==
    Append(PulseQobjConverter_methods,
           Method(<<"_convert_", "custom_command">>, "CustomInstruction", "custom_command"))

Converters == {PulseQobjConverter_methods, CustomConverter_methods}

\* The names in ascending order, as Python compares strings.
NamesAscending ==
    << <<"__call__">>, <<"__init__">>, <<"_convert_", "acquire">>,
       <<"_convert_", "custom_command">>, <<"_convert_", "drive">>,
       <<"_convert_", "frame_change">>, <<"_convert_", "persistent_value">>,
       <<"_convert_", "snapshot">> >>

\* inspect.getmembers(self, inspect.ismethod): the methods sorted by name.
getmembers(methods) ==
    LET present == SelectSeq(NamesAscending,
                             LAMBDA n : \E i \in 1..Len(methods) : methods[i].name = n)
    IN  [k \in 1..Len(present) |->
            methods[CHOOSE i \in 1..Len(methods) : methods[i].name = present[k]]]

startswith_convert(name) == name[1] = "_convert_"

\* What a converter call yields: None, or the qobj model built from the dictionary.
NoneResult == [type |-> "None"]

qobj_model(name, t0) == [type |-> "PulseQobjInstruction", name |-> name, t0 |-> t0]

\* Truth value of a result: None is false, an instance of the model true.
ResultTruthy(r) == r.type # "None"

\* bind_instruction: the decorated converter returns what the converter
\* builds when the instruction is of the bound class, and None otherwise.
_call_valid_converter(method, instruction) ==
    IF instruction.type = method.bound
    THEN qobj_model(IF method.qobj = "command" THEN instruction.command ELSE method.qobj,
                    instruction.start_time)
    ELSE NoneResult

\* Variant of the loop below that goes on after a converter returned a result
\* and returns the last one.
RECURSIVE convert_from_to_the_end(_, _, _, _)
convert_from_to_the_end(members, i, instruction, acc) ==
    IF i > Len(members) THEN acc
    ELSE IF startswith_convert(members[i].name)
         THEN LET dict_qobj == _call_valid_converter(members[i], instruction)
                  called == Append(acc.called, members[i].name)
              IN  convert_from_to_the_end(members, i + 1, instruction,
                      [value |-> IF ResultTruthy(dict_qobj) THEN dict_qobj ELSE acc.value,
                       called |-> called])
         ELSE convert_from_to_the_end(members, i + 1, instruction, acc)

\* The loop of __call__ from member i on: acc.called lists the converters
\* called so far. The else of the for builds a PulseError and does not raise
\* it, so the call returns None when no converter returned a result.
RECURSIVE convert_from(_, _, _, _)
convert_from(members, i, instruction, acc) ==
    IF i > Len(members) THEN acc
    ELSE IF startswith_convert(members[i].name)
         THEN LET dict_qobj == _call_valid_converter(members[i], instruction)
                  called == Append(acc.called, members[i].name)
              IN  IF ResultTruthy(dict_qobj)
                  THEN [value |-> dict_qobj, called |-> called]
                  ELSE convert_from(members, i + 1, instruction,
                                    [value |-> acc.value, called |-> called])
         ELSE convert_from(members, i + 1, instruction, acc)

\* PulseQobjConverter.__call__.
PulseQobjConverter_call(methods, instruction) ==
    convert_from(getmembers(methods), 1, instruction,
                 [value |-> NoneResult, called |-> <<>>])

\* assemble_schedules: the instruction list of one experiment.
assemble_commands(methods, instructions) ==
    [i \in 1..Len(instructions) |-> PulseQobjConverter_call(methods, instructions[i]).value]

\* The flattened instruction sequences of the schedules assembled.
InstructionLists == UNION {[1..n -> Instructions] : n \in 0..MaxInstructions}

Convert(methods, instruction) ==
    /\ op' = "PulseQobjConverter.__call__"
    /\ err' = NoError
    /\ ret' = PulseQobjConverter_call(methods, instruction)
    /\ UNCHANGED <<sched_vars, table_vars, pop_vars>>

Assemble(methods, instructions) ==
    /\ op' = "assemble_schedules"
    /\ err' = NoError
    /\ ret' = assemble_commands(methods, instructions)
    /\ UNCHANGED <<sched_vars, table_vars, pop_vars>>

NextAssemble ==
    \/ \E m \in Converters, i \in Instructions : Convert(m, i)
    \/ \E m \in Converters, is \in InstructionLists : Assemble(m, is)

SpecAssemble == Init /\ [][NextAssemble]_vars

(* ----------------------- two threads inside pop ----------------------- *)
\* Two threads call pop(PopName, PopQubits, PopDefault) on one table at the
\* same time. CmdDef takes no lock, so the threads interleave between the
\* dictionary operations of has_cmd and pop, each of which is atomic.
Threads == {1, 2}

PopName == "cmd"

PopQubits == <<0>>

PopDefault == "sched_default"

\* dict[key] and dict.pop(key) raise KeyError for a key that is not there.
DictKeyError == "KeyError"

\* The tables the calls start on: PopName has a definition for PopQubits,
\* alone in its group or next to another one (add put them there).
PopTables ==
    {CmdDef_add(EmptyDict, PopName, TupleArg(PopQubits), t) : t \in Schedules}
    \cup {CmdDef_add(CmdDef_add(EmptyDict, PopName, TupleArg(<<0, 1>>), u),
                     PopName, TupleArg(PopQubits), t) : t, u \in Schedules}

InitPop ==
    /\ children = <<>>
    /\ inserted = <<>>
    /\ op = "__init__"
    /\ err = NoError
    /\ ret = NoneValue
    /\ pre = <<>>
    /\ cmd_dict \in PopTables
    /\ defined = {<<n, q, cmd_dict[n][q]>> : <<n, q>> \in {x \in (DOMAIN cmd_dict) \X QubitItems :
                                                           x[2] \in DOMAIN cmd_dict[x[1]]}}
    /\ threads = [th \in Threads |-> [pc |-> "has_name", raised |-> NoError,
                                       value |-> NoneValue]]
    /\ detached = EmptyDict

\* The group a thread refers to by the local variable cmd_dict: the object
\* it read from _cmd_dict, in the table still or taken out of it since.
Group(n) == IF n \in DOMAIN cmd_dict THEN cmd_dict[n] ELSE detached[n]

At(th, label) == th \in DOMAIN threads /\ threads[th].pc = label

Goto(th, label) == threads' = [threads EXCEPT ![th].pc = label]

Ends(th, raised, value) ==
    threads' = [threads EXCEPT ![th] = [pc |-> "done", raised |-> raised, value |-> value]]

\* has_cmd: `cmd_name in self._cmd_dict`.
HasName(th) ==
    /\ At(th, "has_name")
    /\ Goto(th, IF PopName \in DOMAIN cmd_dict THEN "has_qubits" ELSE "miss")
    /\ UNCHANGED <<sched_vars, op, err, ret, table_vars, detached>>

\* has_cmd: `qubits in self._cmd_dict[cmd_name]`.
HasQubits(th) ==
    /\ At(th, "has_qubits")
    /\ IF PopName \notin DOMAIN cmd_dict THEN Ends(th, DictKeyError, NoneValue)
       ELSE Goto(th, IF PopQubits \in DOMAIN cmd_dict[PopName] THEN "get_group" ELSE "miss")
    /\ UNCHANGED <<sched_vars, op, err, ret, table_vars, detached>>

\* pop: `cmd_dict = self._cmd_dict[cmd_name]`.
GetGroup(th) ==
    /\ At(th, "get_group")
    /\ IF PopName \notin DOMAIN cmd_dict THEN Ends(th, DictKeyError, NoneValue)
       ELSE Goto(th, "pop_entry")
    /\ UNCHANGED <<sched_vars, op, err, ret, table_vars, detached>>

\* pop: `cmd = cmd_dict.pop(qubits)`.
PopEntry(th) ==
    /\ At(th, "pop_entry")
    /\ IF PopQubits \notin DOMAIN Group(PopName)
       THEN /\ Ends(th, DictKeyError, NoneValue)
            /\ UNCHANGED <<cmd_dict, defined, detached>>
       ELSE /\ threads' = [threads EXCEPT ![th] = [pc |-> "test_empty", raised |-> NoError,
                                                    value |-> Group(PopName)[PopQubits]]]
            /\ defined' = defined \ Keyed(PopName, PopQubits)
            /\ IF PopName \in DOMAIN cmd_dict
               THEN /\ cmd_dict' = DictSet(cmd_dict, PopName,
                                           DictDel(cmd_dict[PopName], PopQubits))
                    /\ UNCHANGED detached
               ELSE /\ detached' = DictSet(detached, PopName,
                                           DictDel(detached[PopName], PopQubits))
                    /\ UNCHANGED cmd_dict
    /\ UNCHANGED <<sched_vars, op, err, ret>>

\* pop: `if not cmd_dict:`, and `return cmd` when the group is not empty.
TestEmpty(th) ==
    /\ At(th, "test_empty")
    /\ IF DOMAIN Group(PopName) = {} THEN Goto(th, "pop_group")
       ELSE Goto(th, "done")
    /\ UNCHANGED <<sched_vars, op, err, ret, table_vars, detached>>

\* pop: `self._cmd_dict.pop(cmd_name)` and `return cmd`.
PopGroup(th) ==
    /\ At(th, "pop_group")
    /\ IF PopName \notin DOMAIN cmd_dict
       THEN /\ Ends(th, DictKeyError, NoneValue)
            /\ UNCHANGED <<cmd_dict, detached>>
       ELSE /\ Goto(th, "done")
            /\ cmd_dict' = DictDel(cmd_dict, PopName)
            /\ detached' = DictSet(detached, PopName, cmd_dict[PopName])
    /\ UNCHANGED <<sched_vars, op, err, ret, defined>>

\* pop: `elif default: return default`, else the raise.
Miss(th) ==
    /\ At(th, "miss")
    /\ IF Truthy(PopDefault) THEN Ends(th, NoError, PopDefault)
       ELSE Ends(th, missing_command(PopName, PopQubits).raised, NoneValue)
    /\ UNCHANGED <<sched_vars, op, err, ret, table_vars, detached>>

NextPop ==
    \E th \in Threads :
        \/ HasName(th)
        \/ HasQubits(th)
        \/ GetGroup(th)
        \/ PopEntry(th)
        \/ TestEmpty(th)
        \/ PopGroup(th)
        \/ Miss(th)

SpecPop == InitPop /\ [][NextPop]_vars

(* ------------------------- claims about the table ---------------------- *)
\* Two calls end alike: the same exception, or the same value returned.
SameOutcome(a, b) ==
    /\ a.raised = b.raised
    /\ a.raised = NoError => a.value = b.value

\* A call returned v.
Returned(r, v) == r.raised = NoError /\ r.value = v

\* C13: right after add(n, q, t), get(n, q) returns t, pop(n, q) returns t,
\* and a get(n, q) after that pop, with no default, fails with the
\* undefined-command error; for every name n and qubit tuple q.
C13_RoundTrip ==
    [][\A n \in CmdNames, q \in QubitItems, t \in Schedules :
           Define(n, TupleArg(q), t)
               => LET p == CmdDef_pop(cmd_dict', n, TupleArg(q), NoneValue)
                  IN  /\ Returned(CmdDef_get(cmd_dict', n, TupleArg(q), NoneValue), t)
                      /\ Returned(p, t)
                      /\ CmdDef_get(p.dict, n, TupleArg(q), NoneValue).raised
                             = UndefinedCommandError]_vars

\* C14: an add(n, q, t2) for a key that has a definition already raises
\* nothing; after it get(n, q) returns t2 and iterating the table yields
\* exactly one element for (n, q).
C14_LastWriteWins ==
    [][\A n \in CmdNames, q \in QubitItems, t2 \in Schedules :
           (Keyed(n, q) # {} /\ Define(n, TupleArg(q), t2))
               => /\ err' = NoError
                  /\ Returned(CmdDef_get(cmd_dict', n, TupleArg(q), NoneValue), t2)
                  /\ Cardinality({e \in CmdDef_iter(cmd_dict') : e[1] = <<n, q>>}) = 1]_vars

\* C15: the table is keyed by (name, qubits): an add(n2, q2, t2) leaves what
\* get(n1, q1) does as it was for every other key (n1, q1), so a definition
\* under another name for the same qubits stays retrievable under its name.
C15_KeyedByPair ==
    [][\A n2 \in CmdNames, q2 \in QubitItems, t2 \in Schedules :
           Define(n2, TupleArg(q2), t2)
               => \A n1 \in CmdNames, q1 \in QubitItems :
                      <<n1, q1>> # <<n2, q2>>
                          => SameOutcome(CmdDef_get(cmd_dict', n1, TupleArg(q1), NoneValue),
                                         CmdDef_get(cmd_dict, n1, TupleArg(q1), NoneValue))]_vars

\* The key is not in the table.
Missing(n, q) == ~(n \in DOMAIN cmd_dict /\ q \in DOMAIN cmd_dict[n])

\* C16: get, __getitem__ and pop for a key that is not in the table, with no
\* default, fail with the undefined-command error and no other, and leave the
\* table as it was.
C16_MissRaisesUndefined ==
    [][\A n \in CmdNames, q \in QubitItems :
           ( /\ Missing(n, q)
             /\ \/ Lookup(n, TupleArg(q), NoneValue)
                \/ GetItem(n, q)
                \/ Remove(n, TupleArg(q), NoneValue) )
               => (err' = UndefinedCommandError /\ cmd_dict' = cmd_dict)]_vars

\* C17: get and pop for a key that is not in the table, with a default that
\* is not None, return the default, whatever its value (an empty one too), and
\* leave the table as it was.
C17_MissReturnsDefault ==
    [][\A n \in CmdNames, q \in QubitItems, d \in Defaults \ {NoneValue} :
           ( /\ Missing(n, q)
             /\ \/ Lookup(n, TupleArg(q), d)
                \/ Remove(n, TupleArg(q), d) )
               => (err' = NoError /\ ret' = d /\ cmd_dict' = cmd_dict)]_vars

\* C18: in every reachable state of the table no name maps to an empty
\* group, and a pop of the only entry of a name leaves a table whose
\* cmd_types() does not list the name.
C18_NoEmptyGroup ==
    /\ \A n \in DOMAIN cmd_dict : DOMAIN cmd_dict[n] # {}
    /\ \A n \in DOMAIN cmd_dict, q \in QubitItems :
           DOMAIN cmd_dict[n] = {q}
               => LET p == CmdDef_pop(cmd_dict, n, TupleArg(q), NoneValue)
                  IN  /\ p.raised = NoError
                      /\ n \notin CmdDef_cmd_types(p.dict)

\* pop has just returned the only entry of a name and left the table
\* without that name.
C18_Witness ==
    /\ op = "CmdDef.pop"
    /\ err = NoError
    /\ ret \in Schedules
    /\ CmdDef_cmd_types(cmd_dict) = {}

\* C19: cmd_types returns exactly the names given to add whose definitions
\* were not all removed since.
C19_CmdTypesExact ==
    op = "CmdDef.cmd_types" => ret = {x[1] : x \in defined}

\* C20: iterating the table yields one element for each (name, qubits) given
\* to add and not removed since, with that name, those qubits and the last
\* schedule given for them, and nothing else; iterating again without a
\* write yields the same elements.
C20_IterExact ==
    op = "CmdDef.cmds"
        => /\ ret = {<< <<x[1], x[2]>>, x[3] >> : x \in defined}
           /\ CmdDef_iter(cmd_dict) = ret

\* C30: a command defined with its qubits as a list or as a tuple is found
\* by has_cmd, get and pop when the same qubits are given in either form, and
\* has_cmd(n, q) is true exactly when get(n, q) with no default returns.
C30_ListOrTuple ==
    [][ /\ \A n \in CmdNames, q \in QubitArgs, t \in Schedules :
               Define(n, q, t)
                   => \A f \in {"tuple", "list"} :
                          LET a == [form |-> f, items |-> q.items]
                          IN  /\ Returned(CmdDef_has_cmd(cmd_dict', n, a), TRUE)
                              /\ Returned(CmdDef_get(cmd_dict', n, a, NoneValue), t)
                              /\ Returned(CmdDef_pop(cmd_dict', n, a, NoneValue), t)
        /\ \A n \in CmdNames, a \in QubitArgs :
               LET has == CmdDef_has_cmd(cmd_dict', n, a)
               IN  /\ has.raised = NoError
                   /\ has.value <=> (CmdDef_get(cmd_dict', n, a, NoneValue).raised = NoError)
      ]_vars

\* C21: however two concurrent pop calls for a key that is in the table
\* interleave, none ends with an error that is not the undefined-command
\* error, and when both have ended exactly one has returned the stored
\* schedule, the other has met a miss (it returned its default or raised the
\* undefined-command error), and the table holds neither the key nor an
\* empty group.
C21_ConcurrentPopSerialized ==
    /\ \A th \in Threads : threads[th].raised \in {NoError, UndefinedCommandError}
    /\ (\A th \in Threads : threads[th].pc = "done")
           => /\ \E th \in Threads :
                     /\ threads[th].raised = NoError
                     /\ threads[th].value \in Schedules
                     /\ \A o \in Threads \ {th} :
                            \/ Returned(threads[o], PopDefault)
                            \/ threads[o].raised = UndefinedCommandError
              /\ ~(PopName \in DOMAIN cmd_dict /\ PopQubits \in DOMAIN cmd_dict[PopName])
              /\ \A n \in DOMAIN cmd_dict : DOMAIN cmd_dict[n] # {}

(* ----------------------- claims about the converter -------------------- *)
\* C24: the converter never returns None for an instruction, and no None is
\* placed in the instruction list of an experiment: an instruction that no
\* converter is bound to makes the call fail instead.
C24_NoNoneInstruction ==
    /\ op = "PulseQobjConverter.__call__" => (err # NoError \/ ret.value.type # "None")
    /\ op = "assemble_schedules"
           => (err # NoError \/ \A i \in 1..Len(ret) : ret[i].type # "None")

\* The converters of a class in ascending order of their names.
ConvertersAscending(methods) ==
    SelectSeq(NamesAscending,
              LAMBDA n : /\ n[1] = "_convert_"
                         /\ \E i \in 1..Len(methods) : methods[i].name = n)

\* The class a converter is bound to.
BoundTo(methods, n) == methods[CHOOSE i \in 1..Len(methods) : methods[i].name = n].bound

\* C28: a call of the converter calls the methods whose names start with
\* _convert_ in ascending order of their names up to the first one bound to
\* the class of the instruction, returns what that one returns and calls none
\* after it; it calls no other method, and a converter bound to another class
\* returns None for the instruction.
C28_FirstMatchWins ==
    [][\A m \in Converters, ins \in Instructions :
           Convert(m, ins)
               => LET r == ret'
                      cs == ConvertersAscending(m)
                      Match == {k \in 1..Len(cs) : BoundTo(m, cs[k]) = ins.type}
                  IN  /\ \A k \in 1..Len(r.called) : r.called[k][1] = "_convert_"
                      /\ \A i \in 1..Len(m) :
                             m[i].bound # ins.type
                                 => _call_valid_converter(m[i], ins).type = "None"
                      /\ IF Match = {}
                         THEN r.called = cs
                         ELSE LET first == CHOOSE k \in Match : \A j \in Match : k <= j
                              IN  /\ r.called = SubSeq(cs, 1, first)
                                  /\ r.value.type = "PulseQobjInstruction"
                                  /\ r.value.t0 = ins.start_time
                                  /\ \E i \in 1..Len(m) :
                                         /\ m[i].name = cs[first]
                                         /\ r.value.name
                                                = _call_valid_converter(m[i], ins).name]_vars

\* The custom converter has just converted a drive instruction: the
\* converters before _convert_drive were called, none after it.
C28_Witness ==
    /\ op = "PulseQobjConverter.__call__"
    /\ ret.value.type = "PulseQobjInstruction"
    /\ ret.value.name = "pulse0"
    /\ ret.called = << <<"_convert_", "acquire">>, <<"_convert_", "custom_command">>,
                       <<"_convert_", "drive">> >>

(* ------------------- claims about shift and append --------------------- *)
\* C22: a.append(b) never fails with a conflict; it returns the instructions
\* of a and, after them, those of b moved by the greatest stop time of a over
\* the channels a and b share (0 if they share none), no two of which
\* overlap on a channel; appending the empty schedule returns a schedule with
\* the flattened output of a.
C22_AppendAtMaxStop ==
    [][\A b \in AppendedSchedules :
           AppendSchedule(b)
               => LET shared == {ch \in MoreChannels :
                                    /\ \E i \in 1..Len(children) : children[i].channel = ch
                                    /\ \E j \in 1..Len(b) : b[j].channel = ch}
                      stops == {children[i].t0 + children[i].command.duration :
                                    i \in {k \in 1..Len(children) :
                                               children[k].channel \in shared}}
                      at == IF stops = {} THEN 0
                            ELSE CHOOSE e \in stops : \A f \in stops : f <= e
                  IN  /\ err' = NoError
                      /\ Len(ret') = Len(children) + Len(b)
                      /\ SubSeq(ret', 1, Len(children)) = children
                      /\ \A j \in 1..Len(b) :
                             ret'[Len(children) + j] = [b[j] EXCEPT !.t0 = @ + at]
                      /\ \A i, j \in 1..Len(ret') :
                             (i # j /\ ret'[i].channel = ret'[j].channel)
                                 => ~Overlaps(ret'[i], ret'[j])
                      /\ b = <<>> => flatten(ret') = flatten(children)]_vars

\* append has just placed a pulse after a pulse on the channel they share,
\* later than 0 and than its own start time.
C22_Witness ==
    /\ op = "append"
    /\ err = NoError
    /\ Len(children) = 1
    /\ Len(ret) = 2
    /\ ret[2].channel = ret[1].channel
    /\ ret[1].command.duration > 0
    /\ ret[2].command.duration > 0
    /\ ret[2].t0 = ret[1].t0 + ret[1].command.duration
    /\ ret[2].t0 > 1

\* C23: for every schedule s and x, y such that no start time becomes
\* negative, s.shift(x).shift(y) has the flattened output of s.shift(x + y),
\* and (s << t) >> t has the flattened output of s.
C23_ShiftLinear ==
    [][\A x \in Shifts :
           (Shift(x) /\ err' = NoError)
               => /\ \A y \in Shifts :
                         shift(ret', y).raised = NoError
                             => /\ shift(children, x + y).raised = NoError
                                /\ flatten(shift(ret', y).value)
                                       = flatten(shift(children, x + y).value)
                  /\ x >= 0
                         => /\ __lshift__(children, x).raised = NoError
                            /\ ret' = __lshift__(children, x).value
                            /\ __rshift__(ret', x).raised = NoError
                            /\ flatten(__rshift__(ret', x).value) = flatten(children)]_vars

\* shift has just moved a schedule of two instructions that do not start
\* together, and the schedule returned can be shifted back.
C23_Witness ==
    /\ op = "shift"
    /\ err = NoError
    /\ Len(children) = 2
    /\ children[1].t0 # children[2].t0
    /\ ret # children
    /\ \E y \in Shifts : y < 0 /\ shift(ret, y).raised = NoError

====
